---- MODULE Spec2Model ----
(***************************************************************************)
(* State-machine model of the snake rule engine of src/snake.py:           *)
(* MoveResult, Direction, Coordinate and SnakeGame (constructor,           *)
(* set_direction, move, get_snake), a caller of get_snake, and the loop    *)
(* driver run_game with FPSFrames.  A coordinate is the pair <<x, y>>.     *)
(***************************************************************************)
EXTENDS Integers, Sequences, FiniteSets, TLC

\* The fields of a SnakeGame: _width, _height, _start_len,
\* _overflows_allowed, _direction, _snake (tail first, head last), _apple.
\* The observation of the last call made on it: its name (call), its
\* argument (arg), the value it returned (result), whether it raised
\* (raised); the direction the last move read (moved); and the value the
\* most recent move before the last call returned (prior).
VARIABLES width, height, start_len, overflows_allowed,
          direction, snake, apple,
          call, arg, result, raised, moved, prior

\* A caller of get_snake: the list it was handed (got) and the number of
\* writes it has made through it (edits).
VARIABLES got, edits

\* run_game: the frame FPSFrames yielded (f), FPSFrames._running (running),
\* the position in the loop body (pc), the events handled in this frame
\* (polled) and what was printed (printed).
VARIABLES f, running, pc, polled, printed

reader == <<got, edits>>
driver == <<f, running, pc, polled, printed>>

vars == <<width, height, start_len, overflows_allowed,
          direction, snake, apple, call, arg, result, raised, moved, prior,
          got, edits, f, running, pc, polled, printed>>

\* Bounds of the constructor arguments that are explored.
MaxWidth == 2
MaxHeight == 2
MaxStartLen == 2

\* Python's None (no apple, no return value, no argument).
None == <<>>

---------------------------------------------------------------------------
\* MoveResult
OK == "ok"
OVERFLOW == "overflow"
COLISION == "colision"
MoveResult == {OK, OVERFLOW, COLISION}

\* Mutation of is_lost: the other losing result is the one tested.
is_lost_overflow_only(r) == r \in {OVERFLOW, OVERFLOW}

is_lost(r) == r \in {COLISION, COLISION}

\* Direction
LEFT == "left"
RIGHT == "right"
UP == "up"
DOWN == "down"
Direction == {LEFT, RIGHT, UP, DOWN}

\* Mutation of OPPOSITE_DIRECTIONS_MAP: a wrong value for DOWN.
OPPOSITE_DIRECTIONS_MAP_slip ==
    [d \in Direction |->
        CASE d = LEFT -> RIGHT
          [] d = RIGHT -> LEFT
          [] d = UP -> DOWN
          [] d = DOWN -> LEFT]

OPPOSITE_DIRECTIONS_MAP ==
    [d \in Direction |->
        CASE d = LEFT -> RIGHT
          [] d = RIGHT -> LEFT
          [] d = UP -> DOWN
          [] d = DOWN -> UP]

get_opposite(d) == OPPOSITE_DIRECTIONS_MAP[d]

is_opposed(d, other) == get_opposite(d) = other

---------------------------------------------------------------------------
\* Coordinate
Coordinate(x, y) == <<x, y>>

left(c) == Coordinate(c[1] - 1, c[2])
\* Mutation of right: the step is two cells long.
right_two(c) == Coordinate(c[1] + 2, c[2])

right(c) == Coordinate(c[1] + 1, c[2])
up(c) == Coordinate(c[1], c[2] - 1)
down(c) == Coordinate(c[1], c[2] + 1)

\* Mutation of overflows: the coordinate is not reduced.
overflows_identity(c, w, h) == c

\* Python's % with a positive divisor yields a value of [0, divisor), as
\* the % of Integers does; a zero divisor raises (see move_outcome).
overflows(c, w, h) == Coordinate(c[1] % w, c[2] % h)

is_outside(c, w, h) ==
    IF c[1] < 0 \/ c[1] >= w THEN TRUE
    ELSE IF c[2] < 0 \/ c[2] >= h THEN TRUE
    ELSE FALSE

---------------------------------------------------------------------------
\* SnakeGame
Elements(s) == {s[i] : i \in 1..Len(s)}

all_coordinates(w, h) == {Coordinate(x, y) : x \in 0..(w - 1), y \in 0..(h - 1)}

head == snake[Len(snake)]
tail == snake[1]
score == Len(snake) - start_len

\* Mutation of _get_free_coordinates: the body is not subtracted.
get_free_coordinates_all(body, w, h) == all_coordinates(w, h)

get_free_coordinates(body, w, h) == all_coordinates(w, h) \ Elements(body)

\* Mutation of _get_random_free_coordinate: the choice is made among all
\* the cells of the board.
get_random_free_coordinate_any_cell(body, w, h) ==
    LET free_coords == get_free_coordinates(body, w, h)
    IN  IF free_coords = {} THEN {None} ELSE all_coordinates(w, h)

\* Mutation of _get_random_free_coordinate: the last free cell is not used.
get_random_free_coordinate_early_none(body, w, h) ==
    LET free_coords == get_free_coordinates(body, w, h)
    IN  IF Cardinality(free_coords) <= 1 THEN {None} ELSE free_coords

\* The values random.choice may return: any free cell, None when none is free.
get_random_free_coordinate(body, w, h) ==
    LET free_coords == get_free_coordinates(body, w, h)
    IN  IF free_coords = {} THEN {None} ELSE free_coords

\* Mutation of _next_coord: DOWN also steps to the right.
next_coord_diagonal(h, d) ==
    CASE d = LEFT -> left(h)
      [] d = RIGHT -> right(h)
      [] d = UP -> up(h)
      [] d = DOWN -> right(down(h))

next_coord(h, d) ==
    CASE d = LEFT -> left(h)
      [] d = RIGHT -> right(h)
      [] d = UP -> up(h)
      [] d = DOWN -> down(h)

\* Mutation of collides: the tail cell is not exempted.
collides_no_exemption(coordinate, body) == coordinate \in Elements(body)

\* The collision test of move.
collides(coordinate, body) ==
    coordinate # body[1] /\ coordinate \in Elements(body)

\* The body once the candidate head is accepted.
\* Mutation of body_after: the tail is removed also when the apple is eaten.
body_after_always_pop(body, coordinate, apl) == Tail(Append(body, coordinate))

body_after(body, coordinate, apl) ==
    IF coordinate = apl
    THEN Append(body, coordinate)
    ELSE Tail(Append(body, coordinate))

\* The value a call returns when it returns nothing, and the argument of a
\* call that takes none.
Nothing == "none"

\* Mutation of __init__: the body is seeded head first.
SnakeGame_head_first(w, h, l, o) ==
    /\ width = w
    /\ height = h
    /\ start_len = l
    /\ overflows_allowed = o
    /\ direction = RIGHT
    /\ snake = [i \in 1..l |-> Coordinate(l - i, 0)]
    /\ apple \in get_random_free_coordinate(
                    [i \in 1..l |-> Coordinate(l - i, 0)], w, h)
    /\ call = "__init__"
    /\ arg = Nothing
    /\ result = Nothing
    /\ raised = FALSE
    /\ moved = Nothing
    /\ prior = Nothing

\* SnakeGame.__init__(width, height, start_len, overflows_allowed): it
\* checks nothing and cannot raise.
SnakeGame(w, h, l, o) ==
    /\ width = w
    /\ height = h
    /\ start_len = l
    /\ overflows_allowed = o
    /\ direction = RIGHT
    /\ snake = [i \in 1..l |-> Coordinate(i - 1, 0)]
    /\ apple \in get_random_free_coordinate(
                    [i \in 1..l |-> Coordinate(i - 1, 0)], w, h)
    /\ call = "__init__"
    /\ arg = Nothing
    /\ result = Nothing
    /\ raised = FALSE
    /\ moved = Nothing
    /\ prior = Nothing

\* Mutation of set_direction: the reversal test is missing.
set_direction_unchecked(d) ==
    /\ direction' = d
    /\ call' = "set_direction"
    /\ arg' = d
    /\ result' = Nothing
    /\ raised' = FALSE
    /\ UNCHANGED <<width, height, start_len, overflows_allowed, snake, apple, moved>>

\* Mutation of set_direction: it also places a new apple.
set_direction_new_apple(d) ==
    /\ direction' = IF is_opposed(direction, d) THEN direction ELSE d
    /\ apple' \in get_random_free_coordinate(snake, width, height)
    /\ call' = "set_direction"
    /\ arg' = d
    /\ result' = Nothing
    /\ raised' = FALSE
    /\ UNCHANGED <<width, height, start_len, overflows_allowed, snake, moved>>

set_direction(d) ==
    /\ direction' = IF is_opposed(direction, d) THEN direction ELSE d
    /\ call' = "set_direction"
    /\ arg' = d
    /\ result' = Nothing
    /\ raised' = FALSE
    /\ UNCHANGED <<width, height, start_len, overflows_allowed, snake, apple, moved>>

\* Mutation of move: the candidate is appended before the collision test.
move_append_first ==
    LET coordinate0 == next_coord(head, direction)
        outside == is_outside(coordinate0, width, height)
    IN  /\ call' = "move"
        /\ arg' = Nothing
        /\ moved' = direction
        /\ UNCHANGED <<width, height, start_len, overflows_allowed, direction>>
        /\ IF outside /\ ~overflows_allowed
           THEN /\ result' = OVERFLOW
                /\ raised' = FALSE
                /\ UNCHANGED <<snake, apple>>
           ELSE IF outside /\ (width = 0 \/ height = 0)
           THEN /\ result' = Nothing
                /\ raised' = TRUE
                /\ UNCHANGED <<snake, apple>>
           ELSE LET coordinate == IF outside
                                  THEN overflows(coordinate0, width, height)
                                  ELSE coordinate0
                IN  IF collides(coordinate, snake)
                    THEN /\ result' = COLISION
                         /\ raised' = FALSE
                         /\ snake' = Append(snake, coordinate)
                         /\ UNCHANGED apple
                    ELSE /\ result' = OK
                         /\ raised' = FALSE
                         /\ snake' = body_after(snake, coordinate, apple)
                         /\ apple' \in IF coordinate = apple
                                       THEN get_random_free_coordinate(
                                                Append(snake, coordinate), width, height)
                                       ELSE {apple}

\* SnakeGame.move.  With overflow allowed and a board of width or height 0
\* the reduction of line 135 divides by zero: the call raises before it has
\* changed anything.
move ==
    LET coordinate0 == next_coord(head, direction)
        outside == is_outside(coordinate0, width, height)
    IN  /\ call' = "move"
        /\ arg' = Nothing
        /\ moved' = direction
        /\ UNCHANGED <<width, height, start_len, overflows_allowed, direction>>
        /\ IF outside /\ ~overflows_allowed
           THEN /\ result' = OVERFLOW
                /\ raised' = FALSE
                /\ UNCHANGED <<snake, apple>>
           ELSE IF outside /\ (width = 0 \/ height = 0)
           THEN /\ result' = Nothing
                /\ raised' = TRUE
                /\ UNCHANGED <<snake, apple>>
           ELSE LET coordinate == IF outside
                                  THEN overflows(coordinate0, width, height)
                                  ELSE coordinate0
                IN  IF collides(coordinate, snake)
                    THEN /\ result' = COLISION
                         /\ raised' = FALSE
                         /\ UNCHANGED <<snake, apple>>
                    ELSE /\ result' = OK
                         /\ raised' = FALSE
                         /\ snake' = body_after(snake, coordinate, apple)
                         /\ apple' \in IF coordinate = apple
                                       THEN get_random_free_coordinate(
                                                Append(snake, coordinate), width, height)
                                       ELSE {apple}

\* The record of the result of the most recent move, kept with every call.
track == prior' = IF call = "move" THEN result ELSE prior

\* No list has been handed out and no loop driver runs.
no_reader == got = <<>> /\ edits = 0
no_driver == f = 0 /\ running = FALSE /\ pc = "none" /\ polled = 0 /\ printed = <<>>

\* A game and a caller that issues set_direction and move in any order.
Init ==
    /\ \E w \in 0..MaxWidth, h \in 0..MaxHeight, l \in 1..MaxStartLen, o \in BOOLEAN :
          SnakeGame(w, h, l, o)
    /\ no_reader
    /\ no_driver

Next ==
    \/ \E d \in Direction : set_direction(d) /\ track /\ UNCHANGED <<reader, driver>>
    \/ move /\ track /\ UNCHANGED <<reader, driver>>

Spec == Init /\ [][Next]_vars

\* Scenario A of the specification: a 5x5 board, start_len 3, no wrapping,
\* any set_direction calls and the moves of a snake that has not grown yet.
ScenarioMaxScore == 1

InitScenarioA == SnakeGame(5, 5, 3, FALSE) /\ no_reader /\ no_driver

NextScenarioA ==
    \/ \E d \in Direction : set_direction(d) /\ track /\ UNCHANGED <<reader, driver>>
    \/ score < ScenarioMaxScore /\ move /\ track /\ UNCHANGED <<reader, driver>>

SpecScenarioA == InitScenarioA /\ [][NextScenarioA]_vars

---------------------------------------------------------------------------
\* get_snake and a caller that writes through the list it returns.  The
\* list is a new list of the same Coordinate objects: got[i] = k > 0 says
\* that its i-th element is the object snake[k], got[i] = 0 that it is an
\* object that is not (or no longer) in the body.

\* Bounds: the number of writes of the caller, and the board, the initial
\* length and the values written that are explored with a caller.
MaxEdits == 1
ReadMaxWidth == 2
ReadMaxHeight == 2
ReadMaxStartLen == 2

\* SnakeGame.get_snake: self._snake[:].
get_snake ==
    /\ got' = [i \in 1..Len(snake) |-> i]
    /\ call' = "get_snake"
    /\ arg' = Nothing
    /\ result' = Nothing
    /\ raised' = FALSE
    /\ track
    /\ UNCHANGED <<width, height, start_len, overflows_allowed, direction,
                   snake, apple, moved, edits, driver>>

\* The objects of the list after a move: pop(0) takes the tail object out
\* of the body and every other object moves one place down.
realias ==
    got' = IF result' = OK /\ Len(snake') = Len(snake)
           THEN [i \in 1..Len(got) |-> IF got[i] <= 1 THEN 0 ELSE got[i] - 1]
           ELSE got

\* The caller puts a new Coordinate at place i of the list: lst[i] = c.
caller_list_setitem(i) ==
    /\ edits < MaxEdits
    /\ i \in 1..Len(got)
    /\ got' = [got EXCEPT ![i] = 0]
    /\ edits' = edits + 1
    /\ call' = "caller"
    /\ arg' = Nothing
    /\ result' = Nothing
    /\ raised' = FALSE
    /\ track
    /\ UNCHANGED <<width, height, start_len, overflows_allowed, direction,
                   snake, apple, moved, driver>>

\* The caller empties the list: lst.clear().
caller_list_clear ==
    /\ edits < MaxEdits
    /\ got # <<>>
    /\ got' = <<>>
    /\ edits' = edits + 1
    /\ call' = "caller"
    /\ arg' = Nothing
    /\ result' = Nothing
    /\ raised' = FALSE
    /\ track
    /\ UNCHANGED <<width, height, start_len, overflows_allowed, direction,
                   snake, apple, moved, driver>>

\* The caller assigns a field of the i-th coordinate of the list:
\* lst[i].x = v (axis 1) or lst[i].y = v (axis 2).  Coordinate is a plain
\* dataclass, so the assignment succeeds, on the object the body holds.
caller_coordinate_setattr(i, axis, v) ==
    /\ edits < MaxEdits
    /\ i \in 1..Len(got)
    /\ snake' = IF got[i] > 0
                THEN [snake EXCEPT ![got[i]] = [@ EXCEPT ![axis] = v]]
                ELSE snake
    /\ edits' = edits + 1
    /\ call' = "caller"
    /\ arg' = Nothing
    /\ result' = Nothing
    /\ raised' = FALSE
    /\ track
    /\ UNCHANGED <<width, height, start_len, overflows_allowed, direction,
                   apple, moved, got, driver>>

InitRead ==
    /\ \E w \in 0..ReadMaxWidth, h \in 0..ReadMaxHeight,
          l \in 1..ReadMaxStartLen, o \in BOOLEAN :
          SnakeGame(w, h, l, o)
    /\ no_reader
    /\ no_driver

NextRead ==
    \/ \E d \in Direction : set_direction(d) /\ track /\ UNCHANGED <<reader, driver>>
    \/ move /\ track /\ realias /\ UNCHANGED <<edits, driver>>
    \/ get_snake
    \/ \E i \in 1..Len(got) : caller_list_setitem(i)
    \/ caller_list_clear
    \/ \E i \in 1..Len(got), axis \in 1..2, v \in 0..ReadMaxWidth :
          caller_coordinate_setattr(i, axis, v)

SpecRead == InitRead /\ [][NextRead]_vars

---------------------------------------------------------------------------
\* run_game and FPSFrames

\* Bounds of a run: the board, the frames FPSFrames yields and the events
\* pygame.event.get() returns in one frame.
RunMaxWidth == 3
RunMaxHeight == 2
MaxFrames == 12
MaxEvents == 2

\* The default start_len of SnakeGame, the first frame index of FPSFrames
\* and the number of frames between two moves.
DefaultStartLen == 3
StartIndex == 1
FramesPerMove == 4

game == <<width, height, start_len, overflows_allowed, direction, snake, apple,
          call, arg, result, raised, moved, prior>>

\* game = SnakeGame(width, height); frames = FPSFrames(); the generator
\* yields its first frame.
InitRun ==
    /\ \E w \in 0..RunMaxWidth, h \in 0..RunMaxHeight :
          SnakeGame(w, h, DefaultStartLen, TRUE)
    /\ no_reader
    /\ f = StartIndex
    /\ running = TRUE
    /\ pc = "events"
    /\ polled = 0
    /\ printed = <<>>

\* An event of type QUIT: frames.stop().
run_event_quit ==
    /\ pc = "events"
    /\ polled < MaxEvents
    /\ polled' = polled + 1
    /\ running' = FALSE
    /\ UNCHANGED <<game, reader, f, pc, printed>>

\* A KEYDOWN event of an arrow key: game.set_direction of its direction.
run_event_key(d) ==
    /\ pc = "events"
    /\ polled < MaxEvents
    /\ polled' = polled + 1
    /\ set_direction(d)
    /\ track
    /\ UNCHANGED <<reader, f, running, pc, printed>>

\* Any other event (another key, a mouse event): nothing is done.
run_event_other ==
    /\ pc = "events"
    /\ polled < MaxEvents
    /\ polled' = polled + 1
    /\ UNCHANGED <<game, reader, f, running, pc, printed>>

\* pygame.event.get() is exhausted.
run_events_done ==
    /\ pc = "events"
    /\ pc' = "tick"
    /\ UNCHANGED <<game, reader, f, running, polled, printed>>

\* A frame in which the snake does not move.
run_tick_skip ==
    /\ pc = "tick"
    /\ f % FramesPerMove # 0
    /\ pc' = "draw"
    /\ UNCHANGED <<game, reader, f, running, polled, printed>>

\* Every fourth frame: res = game.move(); on a lost result the score is
\* printed and the frames are stopped.  An exception of move ends run_game.
run_tick_move ==
    /\ pc = "tick"
    /\ f % FramesPerMove = 0
    /\ move
    /\ track
    /\ IF raised'
       THEN pc' = "crashed" /\ UNCHANGED <<running, printed>>
       ELSE /\ pc' = "draw"
            /\ IF is_lost(result')
               THEN /\ printed' = Append(printed, Len(snake') - start_len')
                    /\ running' = FALSE
               ELSE UNCHANGED <<running, printed>>
    /\ UNCHANGED <<reader, f, polled>>

\* canvas.clear(), draw_game(), display(), then the generator resumes:
\* i += 1 and the next frame is yielded while _running, else run_game
\* reaches pygame.quit().  Drawing the apple reads apple.x (line 376),
\* which raises when there is no apple.
run_draw ==
    /\ pc = "draw"
    /\ IF apple = None
       THEN pc' = "crashed" /\ UNCHANGED <<f, polled>>
       ELSE IF running
       THEN /\ f < MaxFrames
            /\ f' = f + 1
            /\ polled' = 0
            /\ pc' = "events"
       ELSE pc' = "done" /\ UNCHANGED <<f, polled>>
    /\ UNCHANGED <<game, reader, running, printed>>

NextRun ==
    \/ run_event_quit
    \/ \E d \in Direction : run_event_key(d)
    \/ run_event_other
    \/ run_events_done
    \/ run_tick_skip
    \/ run_tick_move
    \/ run_draw

SpecRun == InitRun /\ [][NextRun]_vars

TypeOK ==
    /\ width \in Nat
    /\ height \in Nat
    /\ start_len \in Nat \ {0}
    /\ overflows_allowed \in BOOLEAN
    /\ direction \in Direction
    /\ Len(snake) >= 1
    /\ call \in {"__init__", "set_direction", "move", "get_snake", "caller"}
    /\ arg \in Direction \cup {Nothing}
    /\ result \in MoveResult \cup {Nothing}
    /\ raised \in BOOLEAN
    /\ moved \in Direction \cup {Nothing}
    /\ prior \in MoveResult \cup {Nothing}

---------------------------------------------------------------------------
\* Vocabulary of the properties.

\* The configuration the constructor is documented to require.
ValidConfig == width >= 1 /\ height >= 1 /\ start_len <= width

OnBoard(c) == c[1] >= 0 /\ c[1] < width /\ c[2] >= 0 /\ c[2] < height

BodyOnBoard == \A i \in 1..Len(snake) : OnBoard(snake[i])

\* The cell one step from the head in the active direction.
StepCell ==
    LET h == snake[Len(snake)]
    IN  CASE direction = LEFT -> <<h[1] - 1, h[2]>>
          [] direction = RIGHT -> <<h[1] + 1, h[2]>>
          [] direction = UP -> <<h[1], h[2] - 1>>
          [] direction = DOWN -> <<h[1], h[2] + 1>>

\* The candidate head of the next move: the step cell, wrapped onto the
\* board when it is off the board and the game wraps.
Candidate ==
    IF OnBoard(StepCell) \/ ~overflows_allowed \/ width = 0 \/ height = 0
    THEN StepCell
    ELSE <<StepCell[1] % width, StepCell[2] % height>>

Opposite(d) ==
    CASE d = LEFT -> RIGHT
      [] d = RIGHT -> LEFT
      [] d = UP -> DOWN
      [] d = DOWN -> UP

\* C1: in every reachable state the body holds no coordinate twice and the
\* apple, when there is one, is not a coordinate of the body.
C1_NoDuplicateNoAppleInBody ==
    /\ \A i, j \in 1..Len(snake) : i # j => snake[i] # snake[j]
    /\ apple # None => \A i \in 1..Len(snake) : snake[i] # apple

\* The snake has eaten twice and a third apple lies on the board.
C1_Witness ==
    call = "move" /\ result = OK /\ score >= 2 /\ apple # None

\* C2: a move that returns OVERFLOW or COLISION leaves the body, the apple,
\* the score and the active direction as they were before the call.
C2_MoveAtomicOnFailure ==
    [][(call' = "move" /\ result' \in {OVERFLOW, COLISION}) =>
          /\ snake' = snake
          /\ apple' = apple
          /\ Len(snake') - start_len' = Len(snake) - start_len
          /\ direction' = direction]_vars

\* A grown snake has run into its own body.
C2_Witness ==
    call = "move" /\ result = COLISION /\ score >= 1

\* C3: the direction a move uses is never the opposite of the direction
\* the previous move used, whatever set_direction calls came in between.
C3_NoReverseWithinTick ==
    [][(call' = "move" /\ moved # Nothing) => moved' # Opposite(moved)]_vars

\* C4: is_lost is true of the result of a move exactly when that result is
\* OVERFLOW or COLISION.
C4_IsLostOnLosingResults ==
    (call = "move" /\ ~raised) =>
        (is_lost(result) <=> result \in {OVERFLOW, COLISION})

\* C5: set_direction(d) keeps the active direction when d is its opposite,
\* makes d the active direction otherwise, and never raises.
C5_SetDirection ==
    [][call' = "set_direction" =>
          /\ ~raised'
          /\ arg' = Opposite(direction) => direction' = direction
          /\ arg' # Opposite(direction) => direction' = arg']_vars

\* A reversal request has just been ignored.
C5_Witness ==
    call = "set_direction" /\ arg = Opposite(direction)

\* C6: a move whose new head lands on the apple returns OK, keeps the tail
\* and adds one to the length and to the score; any other move that returns
\* OK keeps length and score, the body losing its first element and gaining
\* the new head.
C6_Growth ==
    [][call' = "move" =>
          /\ (apple # None /\ Candidate = apple) =>
                /\ result' = OK
                /\ snake' = Append(snake, Candidate)
                /\ Len(snake') = Len(snake) + 1
                /\ Len(snake') - start_len' = Len(snake) - start_len + 1
          /\ (result' = OK /\ Candidate # apple) =>
                /\ Len(snake') = Len(snake)
                /\ Len(snake') - start_len' = Len(snake) - start_len
                /\ snake' = Append(Tail(snake), Candidate)]_vars

\* The snake is one longer than at construction after a successful move.
C6_Witness ==
    call = "move" /\ result = OK /\ score = 1 /\ Len(snake) = start_len + 1

\* C7: in a validly built game that wraps, no move returns OVERFLOW, the
\* body stays on the board, and a move off an edge puts the head at 0 or at
\* extent-1 on that axis and keeps the other axis.
C7_Wrap ==
    [][(overflows_allowed /\ ValidConfig) =>
          /\ BodyOnBoard
          /\ BodyOnBoard'
          /\ call' = "move" => (result' # OVERFLOW /\ ~raised')
          /\ (call' = "move" /\ result' = OK /\ ~OnBoard(StepCell)) =>
                LET h == snake[Len(snake)]
                    n == snake'[Len(snake')]
                IN  CASE direction = RIGHT -> n = <<0, h[2]>>
                      [] direction = LEFT -> n = <<width - 1, h[2]>>
                      [] direction = DOWN -> n = <<h[1], 0>>
                      [] direction = UP -> n = <<h[1], height - 1>>]_vars

\* The head has left the right edge of a board at least 2 wide and
\* re-entered at column 0.
C7_Witness ==
    /\ overflows_allowed /\ ValidConfig /\ width >= 2
    /\ call = "move" /\ result = OK /\ moved = RIGHT
    /\ Len(snake) >= 2
    /\ snake[Len(snake)][1] = 0
    /\ snake[Len(snake) - 1][1] = width - 1

\* C8: in a game that does not wrap, a move returns OVERFLOW exactly when
\* the step cell is off the board, it then changes nothing, and the body
\* never holds a coordinate off the board.
C8_WallDeath ==
    [][~overflows_allowed =>
          /\ BodyOnBoard
          /\ BodyOnBoard'
          /\ call' = "move" => (result' = OVERFLOW <=> ~OnBoard(StepCell))
          /\ (call' = "move" /\ result' = OVERFLOW) =>
                (snake' = snake /\ apple' = apple /\ direction' = direction)]_vars

\* C9: a move that is not rejected as OVERFLOW returns COLISION exactly
\* when the candidate head is in the body and is not the tail cell; a move
\* into the tail cell returns OK.
C9_CollisionTailExempt ==
    [][(call' = "move" /\ ~raised' /\ result' # OVERFLOW) =>
          /\ result' = COLISION <=>
                (Candidate # snake[1] /\ \E i \in 1..Len(snake) : snake[i] = Candidate)
          /\ Candidate = snake[1] => result' = OK]_vars

\* The body fills the whole board since construction, so the move that has
\* just returned OK put the head on the cell the tail was leaving.
C9_Witness ==
    /\ call = "move" /\ result = OK
    /\ Len(snake) = start_len /\ Len(snake) = width * height /\ Len(snake) >= 2

\* C10: construction with width < 1, height < 1 or start_len > width is
\* rejected with an error and yields no game whose body leaves the board.
C10_FailFast ==
    (call = "__init__" /\ ~ValidConfig) => (raised /\ BodyOnBoard)

\* The body occupies every cell of the board.
BoardFull ==
    \A x \in 0..(width - 1), y \in 0..(height - 1) :
        \E i \in 1..Len(snake) : snake[i] = <<x, y>>

\* The apple is a cell of the board that is not in the body.
AppleOnFreeCell ==
    /\ apple # None
    /\ OnBoard(apple)
    /\ \A i \in 1..Len(snake) : snake[i] # apple

\* The move about to be made puts the head on the apple.
LandsOnApple == apple # None /\ Candidate = apple

\* C11 as stated: right after a valid construction the body is
\* [(0,0),...,(start_len-1,0)], the direction RIGHT, the score 0 and the
\* apple a board cell that is not in the body.
C11_InitialState_Original ==
    (call = "__init__" /\ ValidConfig) =>
        /\ snake = [i \in 1..start_len |-> <<i - 1, 0>>]
        /\ direction = RIGHT
        /\ Len(snake) - start_len = 0
        /\ AppleOnFreeCell

\* C11 amended: right after a valid construction the body is
\* [(0,0),...,(start_len-1,0)], the direction RIGHT, the score 0, and the
\* apple is a board cell that is not in the body, or there is no apple when
\* the body fills the board.
C11_InitialState ==
    (call = "__init__" /\ ValidConfig) =>
        /\ snake = [i \in 1..start_len |-> <<i - 1, 0>>]
        /\ direction = RIGHT
        /\ Len(snake) - start_len = 0
        /\ IF BoardFull THEN apple = None ELSE AppleOnFreeCell

\* A valid game has just been built with a body of 2 or more and an apple.
C11_Witness ==
    call = "__init__" /\ ValidConfig /\ start_len >= 2 /\ apple # None

\* C12 as stated: the apple changes only in a move whose new head lands on it,
\* and after such a move the new apple is a board cell that is not in the
\* new body.
C12_AppleRespawn_Original ==
    [][/\ apple' # apple => (call' = "move" /\ result' = OK /\ LandsOnApple)
       /\ (call' = "move" /\ LandsOnApple) =>
             /\ apple' # apple
             /\ AppleOnFreeCell']_vars

\* C12 amended: the apple changes only in a move whose new head lands on it;
\* after such a move the new apple is a board cell that is not in the new
\* body, or there is no apple when the new body fills the board; every
\* other call leaves the apple unchanged.
C12_AppleRespawn ==
    [][/\ apple' # apple => (call' = "move" /\ result' = OK /\ LandsOnApple)
       /\ (call' = "move" /\ LandsOnApple) =>
             /\ apple' # apple
             /\ IF BoardFull' THEN apple' = None ELSE AppleOnFreeCell']_vars

\* The snake has eaten the last free cell of a 2x2 board: no apple is left.
C12_Witness ==
    /\ call = "move" /\ result = OK
    /\ width = 2 /\ height = 2 /\ Len(snake) = 4 /\ apple = None

\* C13: in a validly built game there is no apple exactly when the body
\* occupies every cell of the board, and a move made without an apple
\* returns a result, does not raise and does not grow the body.
C13_BoardFull ==
    [][ValidConfig =>
          /\ apple = None <=> BoardFull
          /\ apple' = None <=> BoardFull'
          /\ (apple = None /\ call' = "move") =>
                /\ ~raised'
                /\ result' \in MoveResult
                /\ Len(snake') = Len(snake)]_vars

\* A move made on a full board, after the snake had grown, was rejected.
C13_Witness ==
    /\ ValidConfig /\ apple = None /\ score >= 1
    /\ call = "move" /\ result = COLISION

\* C17: get_opposite is a total involution without fixed point on the four
\* directions (LEFT<->RIGHT, UP<->DOWN), and is_opposed is symmetric:
\* a.is_opposed(b) iff b.is_opposed(a) iff b = opposite(a).
C17_OppositeInvolution ==
    /\ get_opposite(LEFT) = RIGHT /\ get_opposite(RIGHT) = LEFT
    /\ get_opposite(UP) = DOWN /\ get_opposite(DOWN) = UP
    /\ get_opposite(direction) \in Direction
    /\ get_opposite(get_opposite(direction)) = direction
    /\ get_opposite(direction) # direction
    /\ \A a, b \in Direction :
          /\ is_opposed(a, b) <=> is_opposed(b, a)
          /\ is_opposed(a, b) <=> b = get_opposite(a)

\* After a move upwards a request for DOWN has been tested and ignored.
C17_Witness ==
    call = "set_direction" /\ direction = UP /\ arg = DOWN /\ moved = UP

\* C18: a move that directly follows a move that returned OVERFLOW or
\* COLISION returns the same result and changes nothing.
C18_LossRepeats ==
    [][(call = "move" /\ result \in {OVERFLOW, COLISION} /\ call' = "move") =>
          /\ result' = result
          /\ ~raised'
          /\ snake' = snake
          /\ apple' = apple
          /\ direction' = direction]_vars

\* The loss is not latched: the move before the last one returned a losing
\* result, a set_direction came in between, and the last move returned OK.
C18_Witness ==
    call = "move" /\ result = OK /\ prior \in {OVERFLOW, COLISION}

\* Two coordinates of one axis are one unit apart, modulo the extent of the
\* axis when the game wraps.
UnitApart(p, q, extent) ==
    IF overflows_allowed
    THEN p # q /\ ((q - p) % extent = 1 \/ (p - q) % extent = 1)
    ELSE q - p = 1 \/ p - q = 1

Neighbours(a, b) ==
    \/ a[2] = b[2] /\ UnitApart(a[1], b[1], width)
    \/ a[1] = b[1] /\ UnitApart(a[2], b[2], height)

\* C19: in a validly built game each two consecutive body coordinates are
\* neighbours: one unit apart on exactly one axis, modulo the board extent
\* of that axis when the game wraps.
C19_Contiguity ==
    ValidConfig =>
        \A i \in 1..(Len(snake) - 1) : Neighbours(snake[i], snake[i + 1])

\* The head has left the bottom edge and re-entered at row 0.
C19_Witness ==
    /\ ValidConfig /\ overflows_allowed /\ height >= 2
    /\ call = "move" /\ result = OK /\ moved = DOWN
    /\ Len(snake) >= 3
    /\ snake[Len(snake)][2] = 0
    /\ snake[Len(snake) - 1][2] = height - 1

\* C20: set_direction changes nothing but the active direction, and move
\* never changes the active direction, width, height or the overflow
\* setting.
C20_Frame ==
    [][/\ call' = "set_direction" =>
             /\ snake' = snake
             /\ apple' = apple
             /\ Len(snake') - start_len' = Len(snake) - start_len
             /\ width' = width
             /\ height' = height
             /\ overflows_allowed' = overflows_allowed
       /\ call' = "move" =>
             /\ direction' = direction
             /\ width' = width
             /\ height' = height
             /\ overflows_allowed' = overflows_allowed]_vars

\* A grown snake with an apple on the board has been turned downwards.
C20_Witness ==
    /\ call = "set_direction" /\ arg = DOWN /\ direction = DOWN
    /\ score >= 1 /\ apple # None

\* The freshly built game of scenario A, before its first move.
ScenarioAStart ==
    /\ width = 5 /\ height = 5 /\ start_len = 3 /\ ~overflows_allowed
    /\ snake = <<<<0, 0>>, <<1, 0>>, <<2, 0>>>>
    /\ direction = RIGHT
    /\ moved = Nothing

\* C16 as stated: the first move of scenario A returns OK and leaves the
\* body [(1,0),(2,0),(3,0)].
C16_ScenarioA_Original ==
    [][(ScenarioAStart /\ call' = "move") =>
          /\ result' = OK
          /\ snake' = <<<<1, 0>>, <<2, 0>>, <<3, 0>>>>]_vars

\* C16 amended: the first move of scenario A returns OK and leaves the body
\* [(1,0),(2,0),(3,0)], unless the apple was placed on (3,0): the snake then
\* eats it and the body is [(0,0),(1,0),(2,0),(3,0)].
C16_ScenarioA ==
    [][(ScenarioAStart /\ call' = "move") =>
          /\ result' = OK
          /\ snake' = IF apple = <<3, 0>>
                      THEN <<<<0, 0>>, <<1, 0>>, <<2, 0>>, <<3, 0>>>>
                      ELSE <<<<1, 0>>, <<2, 0>>, <<3, 0>>>>]_vars

\* The first move of scenario A has been made rightwards and the snake has
\* not eaten.
C16_Witness ==
    /\ width = 5 /\ height = 5 /\ start_len = 3 /\ ~overflows_allowed
    /\ call = "move" /\ moved = RIGHT /\ prior = Nothing /\ result = OK
    /\ snake = <<<<1, 0>>, <<2, 0>>, <<3, 0>>>>

\* The last call on the game is a move that returned a losing result.
Lost == call = "move" /\ result \in {OVERFLOW, COLISION}

\* C15: in run_game, once a move has returned OVERFLOW or COLISION the
\* final score has been printed, the frames are stopped, and neither move
\* nor any other call is made on the game again.
C15_DriverStops ==
    /\ [](Lost => (printed = <<score>> /\ ~running))
    /\ [][Lost => /\ ~(pc = "tick" /\ f % FramesPerMove = 0 /\ pc' # "tick")
                  /\ UNCHANGED game
                  /\ printed' = printed
                  /\ running' = running]_vars

\* run_game has ended after a collision, with the score printed.
C15_Witness ==
    pc = "done" /\ call = "move" /\ result = COLISION /\ printed = <<score>>

\* C14: no write of a caller to the list get_snake returned, or to the
\* coordinates in it, changes the body of the game.
C14_DefensiveRead ==
    [][call' = "caller" => snake' = snake]_vars
====
